---- MODULE Spec2Model ----
(***************************************************************************)
(* Verification model of the WebVTT object codec and merge engine of the   *)
(* video annotation server (server/routes/webvtt.ts), of its second reader *)
(* (vtt-coordinates.ts) and of the handlers that save containers, drawings *)
(* and edit data and that upload and delete videos.                        *)
(*                                                                         *)
(* Times (videoCurrentTime) are kept in hundredths of a second, so the     *)
(* literal 0.1 of the source is 10.  JavaScript values: a missing or       *)
(* undefined string-valued property is Undef, null is Null, a missing      *)
(* videoCurrentTime is NoTime.                                             *)
(***************************************************************************)
EXTENDS Integers, Sequences, FiniteSets, TLC

VARIABLES
    \* ---- merge engine: one call of combineObjectsWithTimeDeduplication
    existingObjects,   \* argument existingObjects
    newObjects,        \* argument newObjects, as passed by the caller
    combined,          \* the returned array
    newObjectsAfter,   \* the objects of newObjects after the call returned
    appendLog,         \* one record per push of a new object (history)
    pc,                \* "input" before the call, "merged" after it; inside the
                       \* call "forEach", "probing" and "increment"
    \* ---- object codec: generateCompleteVttContent / extractObjectsFromVtt
    objects,           \* the object list handed to the encoder
    coordinateFile,    \* entries of <folder>-coordinates json read by the encoder
    now,               \* wall clock read by getKoreaTimeISO
    vttContent,        \* the container text written by the encoder (lines)
    extracted,         \* the objects decoded from vttContent
    vttContent2,       \* the container text of encoding extracted again
    cpc,               \* "input", "encoded", "decoded", "reencoded"
    \* ---- a stored container that was damaged, and its two readers
    broken,            \* the numbers of the object blocks that were damaged
    corrupted,         \* the container text after the damage (lines)
    coordinates,       \* what extractCoordinatesFromVtt returns for it
    \* ---- POST /api/webvtt and GET /api/vtt-coordinates for one video
    vttFile,           \* <folder>-webvtt.vtt: NoFile or the stored container
    storedBefore,      \* vttFile as it was when the last save began
    submitted,         \* webvttData.objects of the last save
    saveStatus,        \* HTTP status of the last save, 0 before any
    readResult,        \* response of the last read since the last save
    saves,             \* number of save requests handled
    \* ---- POST /api/drawing for one video
    drawingData,       \* the request bodies, one per submission
    drawingFile,       \* entries of the video's coordinate file
    existingData,      \* per submission: the entries its handler has read
    drawingPc,         \* per submission: "pending", "saving", "done", "rejected"
    \* ---- POST /api/upload-file, POST /api/save-data, DELETE /api/video
    folders,           \* per folder of the data directory: "absent", "video", "bare"
    videoFolder,       \* per video: the folder assigned to it at upload
    deletedVideos,     \* the videos a delete request was answered 200 for
    savedData,         \* per folder: version of <folder>-saved-data.json, 0 if none
    saveCount,         \* per video: number of save-data requests answered 200
    projectResponse,   \* response of the last save-data request
    deleteResponse,    \* response of the last delete request
    \* ---- combineObjectsWithTimeDeduplication executed step by step
    cursor,            \* index in newObjects of the object forEach is at
    adjustedTime,      \* the local adjustedTime of the probing loop
    \* ---- GET /api/check-filename
    checkResponse,     \* response of the last file-name check
    \* ---- POST /api/save-screenshot
    screenshotFiles,   \* names of the files in the video's folder
    filesBefore,       \* the folder before the last request
    screenshotRequest, \* body of the last request
    screenshotResponse, \* response of the last request
    \* ---- POST /api/coordinate/update and /api/coordinate/delete
    coordinateData,    \* the entries of the video's coordinate file
    dataBefore,        \* the entries before the last delete request
    coordinateRequest, \* objectName of the last delete request
    coordinateResponse, \* status of the last delete request
    \* ---- the client's useVideoUpload hook
    uploadStatus,      \* status of the upload item
    progress,          \* the local progress of simulateUpload
    statusLog,         \* the statuses the item has had, in order
    uploadPc,          \* the callback of simulateUpload that runs next
    serverAccepted     \* the server has stored the file

mergeVars == <<existingObjects, newObjects, combined, newObjectsAfter, appendLog, pc>>

codecVars == <<objects, coordinateFile, now, vttContent, extracted, vttContent2, cpc>>

readerVars == <<broken, corrupted, coordinates>>

\* the variables of the server's other handlers
storeVars == <<vttFile, storedBefore, submitted, saveStatus, readResult, saves>>

drawingVars == <<drawingData, drawingFile, existingData, drawingPc>>

videoVars == <<folders, videoFolder, deletedVideos, savedData, saveCount,
               projectResponse, deleteResponse>>

stepVars == <<cursor, adjustedTime>>

checkVars == <<checkResponse>>

\* the variables of the routes beside upload, save and delete
screenshotVars == <<screenshotFiles, filesBefore, screenshotRequest, screenshotResponse>>

coordinateVars == <<coordinateData, dataBefore, coordinateRequest, coordinateResponse>>

\* the variables of the client
clientVars == <<uploadStatus, progress, statusLog, uploadPc, serverAccepted>>

routeVars == <<checkVars, screenshotVars, coordinateVars, clientVars>>

serverVars == <<readerVars, storeVars, drawingVars, videoVars, stepVars, routeVars>>

vars == <<mergeVars, codecVars, serverVars>>

-----------------------------------------------------------------------------
(* JavaScript values *)

Undef == "undefined"
Null == "null"
NoTime == -1

\* the 0.1 s window of the conflict test and the 0.1 s adjustment step
TimeTolerance == 10
TimeStep == 10

\* bound on the length of the existing / incoming object lists
MaxObjects == 2

Abs(x) == IF x < 0 THEN -x ELSE x

\* the properties of an object of WebVTTData.objects the server reads
ObjectFields ==
    {"id", "name", "code", "additionalInfo", "dlReservoirDomain", "category",
     "videoCurrentTime", "coordinates", "position", "polygon"}

\* is property f of object o missing (no own property / undefined)
Missing(o, f) ==
    IF f = "videoCurrentTime" THEN o[f] = NoTime ELSE o[f] = Undef

\* (obj.videoCurrentTime || 0)
TimeOrZero(o) ==
    IF o.videoCurrentTime = NoTime THEN 0 ELSE o.videoCurrentTime

-----------------------------------------------------------------------------
(* combineObjectsWithTimeDeduplication *)

\* a spread that keeps the time of the left object (mutation of Spread)
SpreadKeepTime(a, b) ==
    [f \in ObjectFields |->
        IF f = "videoCurrentTime" THEN a[f]
        ELSE IF Missing(b, f) THEN a[f] ELSE b[f]]

\* { ...a, ...b }: every own property of b overrides the one of a
Spread(a, b) ==
    [f \in ObjectFields |-> IF Missing(b, f) THEN a[f] ELSE b[f]]

\* a search that never finds an object of the name (mutation of FindIndex)
FindIndexNever(list, name) == 0

\* combined.findIndex(existing => existing.name === name); 0 stands for -1
FindIndex(list, name) ==
    IF \E i \in 1..Len(list) : list[i].name = name
    THEN CHOOSE i \in 1..Len(list) :
            /\ list[i].name = name
            /\ \A j \in 1..(i - 1) : list[j].name # name
    ELSE 0

\* a conflict test with an off-by-one window (mutation of TimeConflict)
TimeConflictNarrow(list, t) ==
    \E i \in 1..Len(list) : Abs(TimeOrZero(list[i]) - t) < TimeTolerance - 5

\* combined.find(obj => Math.abs((obj.videoCurrentTime || 0) - t) < 0.1)
TimeConflict(list, t) ==
    \E i \in 1..Len(list) : Abs(TimeOrZero(list[i]) - t) < TimeTolerance

\* while (conflict) adjustedTime += 0.1
RECURSIVE AdjustTime(_, _)
AdjustTime(list, t) ==
    IF TimeConflict(list, t) THEN AdjustTime(list, t + TimeStep) ELSE t

\* the body of newObjects.forEach for one newObj; st = [combined, after, log]
ProcessNewObject(st, newObj) ==
    LET existingIndex == FindIndex(st.combined, newObj.name)
        currentTime == TimeOrZero(newObj)
    IN  IF existingIndex # 0
        THEN [st EXCEPT
                !.combined[existingIndex] = Spread(st.combined[existingIndex], newObj),
                !.after = Append(st.after, newObj)]
        ELSE LET pushed ==
                    IF TimeConflict(st.combined, currentTime)
                    THEN [newObj EXCEPT
                            !.videoCurrentTime = AdjustTime(st.combined, currentTime)]
                    ELSE newObj
             IN  [combined |-> Append(st.combined, pushed),
                  after |-> Append(st.after, pushed),
                  log |-> Append(st.log,
                            [name |-> newObj.name,
                             requested |-> currentTime,
                             working |-> {TimeOrZero(st.combined[i]) : i \in 1..Len(st.combined)},
                             pushedTime |-> pushed.videoCurrentTime])]

RECURSIVE ForEachNew(_, _)
ForEachNew(st, news) ==
    IF news = <<>> THEN st
    ELSE ForEachNew(ProcessNewObject(st, Head(news)), Tail(news))

\* an insertion that puts o before the elements of equal time (mutation of
\* InsertByTime)
RECURSIVE InsertByTimeUnstable(_, _)
InsertByTimeUnstable(sorted, o) ==
    IF sorted = <<>> THEN <<o>>
    ELSE IF TimeOrZero(Head(sorted)) < TimeOrZero(o)
         THEN <<Head(sorted)>> \o InsertByTimeUnstable(Tail(sorted), o)
         ELSE <<o>> \o sorted

\* insert o behind every element whose time is not larger (stable)
RECURSIVE InsertByTime(_, _)
InsertByTime(sorted, o) ==
    IF sorted = <<>> THEN <<o>>
    ELSE IF TimeOrZero(Head(sorted)) <= TimeOrZero(o)
         THEN <<Head(sorted)>> \o InsertByTime(Tail(sorted), o)
         ELSE <<o>> \o sorted

RECURSIVE SortFrom(_, _)
SortFrom(sorted, rest) ==
    IF rest = <<>> THEN sorted
    ELSE SortFrom(InsertByTime(sorted, Head(rest)), Tail(rest))

\* no sort at all (mutation of SortByTime)
SortByTimeNone(list) == list

\* combined.sort((a, b) => (a.videoCurrentTime || 0) - (b.videoCurrentTime || 0))
SortByTime(list) == SortFrom(<<>>, list)

\* the whole function: [combined, after, log]
CombineObjectsWithTimeDeduplication(existing, news) ==
    LET st == ForEachNew([combined |-> existing, after |-> <<>>, log |-> <<>>], news)
    IN  [st EXCEPT !.combined = SortByTime(st.combined)]

-----------------------------------------------------------------------------
(* generateCompleteVttContent *)

\* bound on the number of objects handed to the encoder
MaxEncoded == 2

\* Math.floor(Math.random() * 1000) is drawn from 0..MaxRandom
MaxRandom == 1

\* the request data the header and the cue are written from
Data == [videoFileName |-> "video.mp4", duration |-> 3050]

\* JavaScript truthiness of a string-valued or object-valued property
Truthy(v) == v # Undef /\ v # Null /\ v # ""

\* a || b
Or(a, b) == IF Truthy(a) THEN a ELSE b

\* n.toString().padStart(2, '0')
Pad2(n) == IF n < 10 THEN "0" \o ToString(n) ELSE ToString(n)

\* formatDuration(seconds): MM:SS:HH, the argument in hundredths of a second
FormatDuration(t) ==
    LET totalMinutes == t \div 6000
        remainingSeconds == (t % 6000) \div 100
        ms == t % 100
    IN  Pad2(totalMinutes) \o ":" \o Pad2(remainingSeconds) \o ":" \o Pad2(ms)

\* a table that confuses two entries (mutation of GetCategoryCode)
GetCategoryCodeSwapped(category) ==
    CASE category = "etc" -> "00"
      [] category = "GTIN" -> "02"
      [] category = "GLN" -> "01"
      [] category = "SSCC" -> "03"
      [] OTHER -> "00"

\* getCategoryCode: categoryMap[category] || "00"; "etc" stands for the
\* Korean default category
GetCategoryCode(category) ==
    CASE category = "etc" -> "00"
      [] category = "GTIN" -> "01"
      [] category = "GLN" -> "02"
      [] category = "SSCC" -> "03"
      [] category = "GTIN-8" -> "04"
      [] category = "GTIN-12" -> "05"
      [] category = "GTIN-13" -> "06"
      [] category = "GTIN-14" -> "07"
      [] OTHER -> "00"

\* `CODE_RECT-${Math.floor(Math.random() * 1000)}`
RandomCode(n) == "CODE_RECT-" \o ToString(n)

DefaultCategory == "etc"
DefaultDomain == "http://www.naver.com"
DefaultInfo == "AI detected object"

\* the position of the last entry of the coordinate file that bears the
\* name, or the position found so far when there is none
RECURSIVE PositionFromFile(_, _, _)
PositionFromFile(file, name, found) ==
    IF file = <<>> THEN found
    ELSE PositionFromFile(Tail(file), name,
            IF Head(file).ireum = name THEN Head(file).position ELSE found)

\* the JSON object written for one object; draw = [code, link] are the two
\* values Math.random yields when obj.code is falsy.  The keys are the
\* romanised Korean keys of the source: ireum (name), sigan (time),
\* domein (domain), jeongbo (info)
ObjectData(obj, file, draw) ==
    LET categoryCode == GetCategoryCode(Or(obj.category, DefaultCategory))
        positionData == PositionFromFile(file, obj.name,
                            Or(obj.coordinates, Or(obj.position, Null)))
    IN  [ireum |-> obj.name,
         sigan |-> TimeOrZero(obj),
         code |-> Or(obj.code, RandomCode(draw.code)),
         catefory |-> Or(obj.category, DefaultCategory),
         domein |-> Or(obj.dlReservoirDomain, DefaultDomain),
         jeongbo |-> Or(obj.additionalInfo, DefaultInfo),
         finallink |-> Or(obj.dlReservoirDomain, DefaultDomain) \o "/" \o categoryCode
                        \o "/" \o Or(obj.code, RandomCode(draw.link)),
         position |-> positionData,
         polygon |-> Or(obj.polygon, Null)]

NoData ==
    [ireum |-> Undef, sigan |-> 0, code |-> Undef, catefory |-> Undef,
     domein |-> Undef, jeongbo |-> Undef, finallink |-> Undef,
     position |-> Undef, polygon |-> Undef]

\* lines of the container: plain text, or the lines of one JSON.stringify
TextLine(s) == [kind |-> "text", text |-> s, data |-> NoData]
JsonLines(d) == [kind |-> "json", text |-> "", data |-> d]

\* objects.map(obj => obj.name).join(', ')
RECURSIVE JoinNames(_)
JoinNames(objs) ==
    IF objs = <<>> THEN ""
    ELSE (IF Truthy(Head(objs).name) THEN Head(objs).name ELSE "")
            \o (IF Len(objs) > 1 THEN ", " ELSE "")
            \o JoinNames(Tail(objs))

RECURSIVE ObjectLines(_, _, _, _)
ObjectLines(objs, file, draws, index) ==
    IF index > Len(objs) THEN <<>>
    ELSE <<TextLine("object" \o ToString(index)),
           JsonLines(ObjectData(objs[index], file, draws[index]))>>
            \o ObjectLines(objs, file, draws, index + 1)

GenerateCompleteVttContent(data, objs, file, time, draws) ==
    <<TextLine("WEBVTT"),
      TextLine("NOTE"),
      TextLine("video: " \o data.videoFileName),
      TextLine("created: " \o ToString(time)),
      TextLine("object count: " \o ToString(Len(objs)))>>
    \o (IF Len(objs) > 0
        THEN <<TextLine("COORDINATES_DATA_START")>>
                \o ObjectLines(objs, file, draws, 1)
                \o <<TextLine("COORDINATES_DATA_END")>>
        ELSE <<>>)
    \o <<TextLine(""),
         TextLine("1"),
         TextLine("00:00:00.000 --> " \o FormatDuration(data.duration)),
         TextLine(IF Len(objs) > 0
                  THEN "detected objects: " \o JoinNames(objs)
                  ELSE "no detected objects"),
         TextLine("")>>

-----------------------------------------------------------------------------
(* extractObjectsFromVtt / processVttObject *)

\* a line of the coordinates section that starts with 'object'
IsObjectMarker(line) ==
    line.kind = "text" /\ line.text \in {"object" \o ToString(i) : i \in 1..(MaxEncoded + 2)}

\* a decoder that reads the category under the key "category" only
\* (mutation of ProcessVttObject)
ProcessVttObjectCategoryKey(objectLines, objs) ==
    IF Len(objectLines) = 1 /\ objectLines[1].kind = "json"
    THEN LET objectData == objectLines[1].data
         IN  Append(objs,
                [id |-> "existing",
                 name |-> Or(objectData.ireum, Undef),
                 code |-> objectData.code,
                 category |-> Undef,
                 dlReservoirDomain |-> Or(objectData.domein, Undef),
                 additionalInfo |-> Or(objectData.jeongbo, Undef),
                 videoCurrentTime |-> objectData.sigan,
                 coordinates |-> objectData.position,
                 position |-> objectData.position,
                 polygon |-> objectData.polygon])
    ELSE objs

\* processVttObject: JSON.parse of the joined lines succeeds when they are
\* the lines of exactly one JSON.stringify; the block holds no key "name",
\* "category", "domain", "info" or "videoTime", so those alternatives of
\* the || chains are undefined
ProcessVttObject(objectLines, objs) ==
    IF Len(objectLines) = 1 /\ objectLines[1].kind = "json"
    THEN LET objectData == objectLines[1].data
         IN  Append(objs,
                [id |-> "existing",
                 name |-> Or(objectData.ireum, Undef),
                 code |-> objectData.code,
                 category |-> Or(objectData.catefory, Undef),
                 dlReservoirDomain |-> Or(objectData.domein, Undef),
                 additionalInfo |-> Or(objectData.jeongbo, Undef),
                 videoCurrentTime |-> objectData.sigan,
                 coordinates |-> objectData.position,
                 position |-> objectData.position,
                 polygon |-> objectData.polygon])
    ELSE objs

\* a line loop that forgets the collected lines at the end marker (mutation
\* of ExtractLine)
ExtractLineNoFlush(st, line) ==
    IF line.kind = "text" /\ line.text = "COORDINATES_DATA_START"
    THEN [st EXCEPT !.inCoordinatesSection = TRUE]
    ELSE IF line.kind = "text" /\ line.text = "COORDINATES_DATA_END"
    THEN [st EXCEPT !.inCoordinatesSection = FALSE, !.currentObjectLines = <<>>]
    ELSE IF st.inCoordinatesSection
    THEN IF IsObjectMarker(line)
         THEN [st EXCEPT
                 !.currentObjectLines = <<>>,
                 !.objects = IF Len(st.currentObjectLines) > 0
                             THEN ProcessVttObject(st.currentObjectLines, st.objects)
                             ELSE st.objects]
         ELSE IF line.kind = "json" \/ line.text # ""
         THEN [st EXCEPT !.currentObjectLines = Append(st.currentObjectLines, line)]
         ELSE st
    ELSE st

\* one iteration of the line loop; st = [inCoordinatesSection,
\* currentObjectLines, objects]
ExtractLine(st, line) ==
    IF line.kind = "text" /\ line.text = "COORDINATES_DATA_START"
    THEN [st EXCEPT !.inCoordinatesSection = TRUE]
    ELSE IF line.kind = "text" /\ line.text = "COORDINATES_DATA_END"
    THEN [inCoordinatesSection |-> FALSE,
          currentObjectLines |-> <<>>,
          objects |-> IF Len(st.currentObjectLines) > 0
                      THEN ProcessVttObject(st.currentObjectLines, st.objects)
                      ELSE st.objects]
    ELSE IF st.inCoordinatesSection
    THEN IF IsObjectMarker(line)
         THEN [st EXCEPT
                 !.currentObjectLines = <<>>,
                 !.objects = IF Len(st.currentObjectLines) > 0
                             THEN ProcessVttObject(st.currentObjectLines, st.objects)
                             ELSE st.objects]
         ELSE IF line.kind = "json" \/ line.text # ""
         THEN [st EXCEPT !.currentObjectLines = Append(st.currentObjectLines, line)]
         ELSE st
    ELSE st

RECURSIVE ExtractLoop(_, _)
ExtractLoop(st, lines) ==
    IF lines = <<>> THEN st
    ELSE ExtractLoop(ExtractLine(st, Head(lines)), Tail(lines))

ExtractObjectsFromVtt(content) ==
    ExtractLoop([inCoordinatesSection |-> FALSE, currentObjectLines |-> <<>>,
                 objects |-> <<>>], content).objects

-----------------------------------------------------------------------------
(* inputs of the merge engine *)

Obj(id, name, time, info) ==
    [id |-> id, name |-> name, code |-> Undef, additionalInfo |-> info,
     dlReservoirDomain |-> Undef, category |-> Undef, videoCurrentTime |-> time,
     coordinates |-> Undef, position |-> Undef, polygon |-> Undef]

\* objects as processVttObject returns them: the time is always a number
ExistingPool ==
    {Obj("existing", n, t, "old") : n \in {"A", "B"}, t \in {0, 10}}
        \cup {Obj("existing", "A", 1000, "old")}

\* objects of a request body
IncomingPool ==
    {Obj("new", n, t, "new") : n \in {Undef, "A", "C", "D"}, t \in {NoTime, 5}}
        \cup {Obj("new", "A", NoTime, Undef), Obj("new", "C", 1005, "new")}

ListsOf(pool, n) == UNION {[1..k -> pool] : k \in 0..n}

MergeInit ==
    /\ existingObjects \in ListsOf(ExistingPool, MaxObjects)
    /\ newObjects \in ListsOf(IncomingPool, MaxObjects)
    /\ combined = <<>>
    /\ newObjectsAfter = <<>>
    /\ appendLog = <<>>
    /\ pc = "input"

\* the codec is not used while the merge engine is exercised
CodecIdle ==
    /\ objects = <<>>
    /\ coordinateFile = <<>>
    /\ now = 0
    /\ vttContent = <<>>
    /\ extracted = <<>>
    /\ vttContent2 = <<>>
    /\ cpc = "idle"

ReaderIdle ==
    /\ broken = {}
    /\ corrupted = <<>>
    /\ coordinates = <<>>

\* a missing file
NoFile == <<>>

\* no response yet
NoResponse == [status |-> 0, coordinatesCount |-> 0, coordinates |-> <<>>]

StoreIdle ==
    /\ vttFile = NoFile
    /\ storedBefore = NoFile
    /\ submitted = <<>>
    /\ saveStatus = 0
    /\ readResult = NoResponse
    /\ saves = 0

DrawingIdle ==
    /\ drawingData = <<>>
    /\ drawingFile = <<>>
    /\ existingData = <<>>
    /\ drawingPc = <<>>

VideoIdle ==
    /\ folders = <<>>
    /\ videoFolder = <<>>
    /\ deletedVideos = {}
    /\ savedData = <<>>
    /\ saveCount = <<>>
    /\ projectResponse = <<>>
    /\ deleteResponse = <<>>

StepIdle ==
    /\ cursor = 0
    /\ adjustedTime = 0

CheckIdle == checkResponse = <<>>

ScreenshotIdle ==
    /\ screenshotFiles = {}
    /\ filesBefore = {}
    /\ screenshotRequest = <<>>
    /\ screenshotResponse = <<>>

CoordinateIdle ==
    /\ coordinateData = <<>>
    /\ dataBefore = <<>>
    /\ coordinateRequest = Undef
    /\ coordinateResponse = 0

ClientIdle ==
    /\ uploadStatus = Undef
    /\ progress = 0
    /\ statusLog = <<>>
    /\ uploadPc = "idle"
    /\ serverAccepted = FALSE

RouteIdle == CheckIdle /\ ScreenshotIdle /\ CoordinateIdle /\ ClientIdle

\* no other handler of the server runs
ServerIdle == ReaderIdle /\ StoreIdle /\ DrawingIdle /\ VideoIdle /\ StepIdle /\ RouteIdle

Merge ==
    /\ pc = "input"
    /\ LET r == CombineObjectsWithTimeDeduplication(existingObjects, newObjects)
       IN  /\ combined' = r.combined
           /\ newObjectsAfter' = r.after
           /\ appendLog' = r.log
    /\ pc' = "merged"
    /\ UNCHANGED <<existingObjects, newObjects>>
    /\ UNCHANGED <<codecVars, serverVars>>

Init == MergeInit /\ CodecIdle /\ ServerIdle

Next == Merge

Spec == Init /\ [][Next]_vars

-----------------------------------------------------------------------------
(* Properties of the merge engine, checked under Spec *)

IndicesOf(list, name) == {i \in 1..Len(list) : list[i].name = name}

IsSortedByTime(list) ==
    \A i, j \in 1..Len(list) : i < j => TimeOrZero(list[i]) <= TimeOrZero(list[j])

\* the value of property f of the last incoming object named like e that
\* carries f, and the value e has when no such incoming object carries it
Overlaid(e, f) ==
    LET carrying == {j \in IndicesOf(newObjects, e.name) : ~Missing(newObjects[j], f)}
    IN  IF carrying = {} THEN e[f]
        ELSE newObjects[CHOOSE j \in carrying : \A h \in carrying : h <= j][f]

\* the names of exactly one existing object that also occur in the request
UpdatedNames ==
    {n \in {existingObjects[i].name : i \in 1..Len(existingObjects)} :
        /\ Cardinality(IndicesOf(existingObjects, n)) = 1
        /\ IndicesOf(newObjects, n) # {}}

TheExisting(n) == existingObjects[CHOOSE i \in IndicesOf(existingObjects, n) : TRUE]

SmallestFreeProbe(working, t) ==
    CHOOSE k \in 0..(2 * Cardinality(working)) :
        /\ \A w \in working : Abs(w - (t + k * TimeStep)) >= TimeTolerance
        /\ \A h \in 0..(k - 1) :
              \E w \in working : Abs(w - (t + h * TimeStep)) < TimeTolerance

PushedTimeOrZero(l) == IF l.pushedTime = NoTime THEN 0 ELSE l.pushedTime

C3_SortedByTime ==
    pc = "merged" => IsSortedByTime(combined)

\* the case of C3: the working list was out of order before the final sort
C3_Witness ==
    /\ pc = "merged"
    /\ Len(combined) >= 2
    /\ ~IsSortedByTime(existingObjects \o newObjectsAfter)
    /\ IsSortedByTime(combined)

\* C4 as claimed: merging an empty request returns the existing list,
\* element for element and in the same order, whatever its order was.
C4_MergeNothingIsIdentity ==
    (pc = "merged" /\ newObjects = <<>>) => combined = existingObjects

\* C4 amended: merging an empty request returns the objects of the existing
\* list sorted by time, objects of equal time in their existing order; it
\* returns the existing list itself when that list is already
\* non-decreasing by time.
C4_MergeNothingSortsStably ==
    (pc = "merged" /\ newObjects = <<>>) =>
        /\ Len(combined) = Len(existingObjects)
        /\ \E p \in [1..Len(combined) -> 1..Len(combined)] :
              /\ \A i, j \in 1..Len(combined) : i # j => p[i] # p[j]
              /\ \A i \in 1..Len(combined) : combined[i] = existingObjects[p[i]]
              /\ \A i, j \in 1..Len(combined) :
                    i < j =>
                        \/ TimeOrZero(existingObjects[p[i]]) < TimeOrZero(existingObjects[p[j]])
                        \/ /\ TimeOrZero(existingObjects[p[i]]) = TimeOrZero(existingObjects[p[j]])
                           /\ p[i] < p[j]
        /\ IsSortedByTime(existingObjects) => combined = existingObjects

\* the case of C4: an existing list that is out of order, and one that
\* holds two objects of the same time, merged with nothing
C4_Witness ==
    /\ pc = "merged"
    /\ newObjects = <<>>
    /\ Len(existingObjects) = 2
    /\ existingObjects[1].videoCurrentTime > existingObjects[2].videoCurrentTime
    /\ combined = <<existingObjects[2], existingObjects[1]>>

\* C5: an incoming object without a name is dropped and never appears in
\* the merge result (no existing object is nameless).
C5_NamelessDropped ==
    pc = "merged" =>
        /\ \A k \in 1..Len(combined) : combined[k].name # Undef
        /\ (\A j \in 1..Len(newObjects) : newObjects[j].name = Undef) =>
              combined = SortByTime(existingObjects)

-----------------------------------------------------------------------------
(* inputs of the codec *)

Full(name, category) ==
    [id |-> "new", name |-> name, code |-> "C1", additionalInfo |-> "info",
     dlReservoirDomain |-> "http://x.com", category |-> category,
     videoCurrentTime |-> 5, coordinates |-> Undef, position |-> "rectangle",
     polygon |-> "polygon"]

\* an object that carries a name only
Bare(name) ==
    [id |-> "new", name |-> name, code |-> Undef, additionalInfo |-> Undef,
     dlReservoirDomain |-> Undef, category |-> Undef, videoCurrentTime |-> NoTime,
     coordinates |-> Undef, position |-> Undef, polygon |-> Undef]

\* the categories the client offers in its select boxes
SelectableCategories == {"etc", "GTIN", "GLN", "GIAI", "GSIN"}

CodecPool ==
    {Full("A", c) : c \in SelectableCategories \cup {"SSCC", Undef}}
        \cup {Bare("B"),
              [Full("B", "GTIN") EXCEPT !.code = Undef],
              [Full("B", "GLN") EXCEPT !.dlReservoirDomain = Undef],
              [Full("B", "GTIN") EXCEPT !.videoCurrentTime = 0,
                                        !.position = Null, !.polygon = Null],
              [Full("B", "GTIN") EXCEPT !.coordinates = "click", !.position = Undef]}

\* the coordinate file is missing or empty, or holds a drawing named A
CoordinateFiles ==
    {<<>>, <<[ireum |-> "A", position |-> "path"]>>}

\* the values Math.random yields while the objects are encoded: two draws
\* for every object whose code is falsy, none for the others
RECURSIVE DrawsFor(_)
DrawsFor(objs) ==
    IF objs = <<>> THEN {<<>>}
    ELSE {<<d>> \o rest :
            d \in (IF Truthy(Head(objs).code)
                   THEN {[code |-> 0, link |-> 0]}
                   ELSE [code : 0..MaxRandom, link : 0..MaxRandom]),
            rest \in DrawsFor(Tail(objs))}

MergeIdle ==
    /\ existingObjects = <<>>
    /\ newObjects = <<>>
    /\ combined = <<>>
    /\ newObjectsAfter = <<>>
    /\ appendLog = <<>>
    /\ pc = "idle"

CodecInit ==
    /\ MergeIdle
    /\ ServerIdle
    /\ objects \in ListsOf(CodecPool, MaxEncoded)
    /\ coordinateFile \in CoordinateFiles
    /\ now = 0
    /\ vttContent = <<>>
    /\ extracted = <<>>
    /\ vttContent2 = <<>>
    /\ cpc = "input"

\* encode(L, header)
Encode ==
    /\ cpc = "input"
    /\ \E draws \in DrawsFor(objects) :
          vttContent' = GenerateCompleteVttContent(Data, objects, coordinateFile, now, draws)
    /\ now' = now + 1
    /\ cpc' = "encoded"
    /\ UNCHANGED <<objects, coordinateFile, extracted, vttContent2>>
    /\ UNCHANGED <<mergeVars, serverVars>>

\* decode(T)
Decode ==
    /\ cpc = "encoded"
    /\ extracted' = ExtractObjectsFromVtt(vttContent)
    /\ cpc' = "decoded"
    /\ UNCHANGED <<objects, coordinateFile, now, vttContent, vttContent2>>
    /\ UNCHANGED <<mergeVars, serverVars>>

\* encode(decode(T), header)
ReEncode ==
    /\ cpc = "decoded"
    /\ \E draws \in DrawsFor(extracted) :
          vttContent2' = GenerateCompleteVttContent(Data, extracted, coordinateFile, now, draws)
    /\ now' = now + 1
    /\ cpc' = "reencoded"
    /\ UNCHANGED <<objects, coordinateFile, vttContent, extracted>>
    /\ UNCHANGED <<mergeVars, serverVars>>

CodecNext == Encode \/ Decode \/ ReEncode

CodecSpec == CodecInit /\ [][CodecNext]_vars

-----------------------------------------------------------------------------
(* Properties of the codec, checked under CodecSpec *)

RECURSIVE BlocksOf(_)
BlocksOf(content) ==
    IF content = <<>> THEN <<>>
    ELSE (IF Head(content).kind = "json" THEN <<Head(content).data>> ELSE <<>>)
            \o BlocksOf(Tail(content))

Encoded == cpc \in {"encoded", "decoded", "reencoded"}

\* C6: in every object block written by encode, finallink is the block's
\* own domain + "/" + the category code of the block's own category + "/" +
\* the block's own code, also when code, domain or category were filled in
\* by the defaults of the encoder.
C6_LinkNeverDrifts ==
    Encoded =>
        \A i \in 1..Len(BlocksOf(vttContent)) :
            LET b == BlocksOf(vttContent)[i]
            IN  b.finallink = b.domein \o "/" \o GetCategoryCode(b.catefory) \o "/" \o b.code

\* the category codes the specification fixes for GTIN, GLN and the default
FixedCode(category) ==
    IF category = "GTIN" THEN "01" ELSE IF category = "GLN" THEN "02" ELSE "00"

\* the codes the link of object o can end in
LinkCodes(o) ==
    IF Truthy(o.code) THEN {o.code} ELSE {RandomCode(n) : n \in 0..MaxRandom}

\* C7: in the encoded link GTIN maps to 01, GLN to 02 and the default
\* category or an absent category to 00, and the link is exactly
\* domain/categoryCode/code; GTIN, http://x.com and C1 give
\* http://x.com/01/C1.
C7_CategoryCodeMapping ==
    Encoded =>
        /\ Len(BlocksOf(vttContent)) = Len(objects)
        /\ \A i \in 1..Len(objects) :
              LET o == objects[i]
                  b == BlocksOf(vttContent)[i]
                  category == IF Truthy(o.category) THEN o.category ELSE "etc"
                  domain == IF Truthy(o.dlReservoirDomain)
                            THEN o.dlReservoirDomain ELSE "http://www.naver.com"
              IN  /\ category \in {"GTIN", "GLN", "etc"} =>
                        \E c \in LinkCodes(o) :
                            b.finallink = domain \o "/" \o FixedCode(category) \o "/" \o c
                  /\ (o.category = "GTIN" /\ o.dlReservoirDomain = "http://x.com"
                          /\ o.code = "C1") =>
                        b.finallink = "http://x.com/01/C1"

\* the case of C7: objects of the categories GTIN and GLN and an object
\* without category have been encoded
C7_Witness ==
    /\ Encoded
    /\ Len(objects) = 2
    /\ objects[1].category = "GTIN" /\ objects[1].code = "C1"
    /\ objects[2].category = Undef
    /\ BlocksOf(vttContent)[1].finallink = "http://x.com/01/C1"
    /\ BlocksOf(vttContent)[2].catefory = "etc"

\* categoryCodeMap of the client (VideoPlayer.tsx)
ClientCategoryCode(category) ==
    CASE category = "GTIN" -> "01"
      [] category = "GLN" -> "02"
      [] category = "GIAI" -> "03"
      [] category = "GSIN" -> "04"
      [] category = "etc" -> "00"
      [] OTHER -> "00"

\* C8: for every category the client can select, the code segment of the
\* link stored in the container is the code the client's table shows for
\* that category (GIAI 03, GSIN 04).
C8_ClientTableReproduced ==
    Encoded =>
        \A i \in 1..Len(BlocksOf(vttContent)) :
            LET b == BlocksOf(vttContent)[i]
            IN  b.catefory \in SelectableCategories =>
                    \E c \in {b.code} \cup {RandomCode(n) : n \in 0..MaxRandom} :
                        b.finallink = b.domein \o "/" \o ClientCategoryCode(b.catefory)
                                        \o "/" \o c

\* the geometry of an object: coordinates, else position, else null
GeometryOf(o) ==
    IF Truthy(o.coordinates) THEN o.coordinates
    ELSE IF Truthy(o.position) THEN o.position ELSE Null

\* C9 as claimed: decode(encode(L)) equals L field for field and in the
\* same order (name, time, code, category, domain, info, geometry, polygon),
\* also for objects with absent optional fields.
C9_RoundTripFieldForField ==
    cpc \in {"decoded", "reencoded"} =>
        /\ Len(extracted) = Len(objects)
        /\ \A i \in 1..Len(objects) :
              LET o == objects[i]
                  e == extracted[i]
              IN  /\ e.name = o.name
                  /\ e.videoCurrentTime = o.videoCurrentTime
                  /\ e.code = o.code
                  /\ e.category = o.category
                  /\ e.dlReservoirDomain = o.dlReservoirDomain
                  /\ e.additionalInfo = o.additionalInfo
                  /\ GeometryOf(e) = GeometryOf(o)
                  /\ e.polygon = o.polygon

\* C9 amended: decode(encode(L)) has the length and order of L and returns
\* every name, non-zero time, code, category, domain, info and polygon that
\* the object carries; an absent time comes back as 0, an absent code as a
\* generated code, an absent category, domain or info as the default of the
\* encoder, an absent polygon as null, and the geometry comes back unless
\* the video's coordinate file holds an entry of the object's name.
C9_RoundTripWithDefaults ==
    cpc \in {"decoded", "reencoded"} =>
        /\ Len(extracted) = Len(objects)
        /\ \A i \in 1..Len(objects) :
              LET o == objects[i]
                  e == extracted[i]
              IN  /\ e.name = o.name
                  /\ e.videoCurrentTime = (IF o.videoCurrentTime = NoTime
                                           THEN 0 ELSE o.videoCurrentTime)
                  /\ IF Truthy(o.code) THEN e.code = o.code
                     ELSE e.code \in {RandomCode(n) : n \in 0..MaxRandom}
                  /\ e.category = (IF Truthy(o.category) THEN o.category ELSE "etc")
                  /\ e.dlReservoirDomain = (IF Truthy(o.dlReservoirDomain)
                                            THEN o.dlReservoirDomain
                                            ELSE "http://www.naver.com")
                  /\ e.additionalInfo = (IF Truthy(o.additionalInfo)
                                         THEN o.additionalInfo ELSE DefaultInfo)
                  /\ e.polygon = (IF Truthy(o.polygon) THEN o.polygon ELSE Null)
                  /\ (\A x \in 1..Len(coordinateFile) : coordinateFile[x].ireum # o.name) =>
                        /\ e.position = GeometryOf(o)
                        /\ e.coordinates = GeometryOf(o)

\* the case of C9: a list with a complete object and an object that
\* carries a name only went through encode and decode
C9_Witness ==
    /\ cpc = "decoded"
    /\ Len(objects) = 2
    /\ objects[1] = Full("A", "GTIN")
    /\ objects[2] = Bare("B")
    /\ coordinateFile = <<>>
    /\ extracted[1].code = "C1" /\ extracted[1].position = "rectangle"
    /\ extracted[2].category = "etc" /\ extracted[2].videoCurrentTime = 0

\* the header line that carries the generation time
IsCreatedLine(line) ==
    \E t \in 0..now : line = TextLine("created: " \o ToString(t))

\* C10: encode(decode(T)) equals T in every line except the generation
\* time, for every container text T produced by encode.
C10_ReEncodingStable ==
    cpc = "reencoded" =>
        /\ Len(vttContent2) = Len(vttContent)
        /\ \A i \in 1..Len(vttContent) :
              \/ vttContent2[i] = vttContent[i]
              \/ IsCreatedLine(vttContent[i]) /\ IsCreatedLine(vttContent2[i])

\* C11: in every container written by encode the object count declared in
\* the header equals the number of object blocks written (and of object<N>
\* marker lines), and decode returns that many objects.
C11_HeaderCount ==
    Encoded =>
        \E n \in 0..(MaxEncoded + 1) :
            /\ vttContent[5] = TextLine("object count: " \o ToString(n))
            /\ Len(BlocksOf(vttContent)) = n
            /\ Cardinality({i \in 1..Len(vttContent) : IsObjectMarker(vttContent[i])}) = n
            /\ cpc \in {"decoded", "reencoded"} => Len(extracted) = n

\* the case of C11: a container of two objects was written and decoded
C11_Witness ==
    /\ cpc = "decoded"
    /\ vttContent[5] = TextLine("object count: 2")
    /\ Len(extracted) = 2

-----------------------------------------------------------------------------
(* extractCoordinatesFromVtt / processCollectedObject (vtt-coordinates.ts), *)
(* and both readers on a container with damaged object blocks               *)

\* bound on the number of object blocks of a container that is damaged
MaxBlocks == 3

\* objectData["시간"] || objectData.videoTime: the block holds no key
\* "videoTime", so a time of 0 is read as undefined
TimeOrUndefined(t) == IF t # 0 THEN t ELSE NoTime

\* a reader that pushes an entry for a block it could not parse (mutation of
\* ProcessCollectedObject)
ProcessCollectedObjectAlways(objectLines, coords) ==
    IF Len(objectLines) = 1 /\ objectLines[1].kind = "json"
    THEN Append(coords, [objectLines[1].data EXCEPT !.sigan = TimeOrUndefined(@)])
    ELSE Append(coords, NoData)

\* processCollectedObject: the entry the client receives for one block
ProcessCollectedObject(objectLines, coords) ==
    IF Len(objectLines) = 1 /\ objectLines[1].kind = "json"
    THEN LET objectData == objectLines[1].data
         IN  Append(coords,
                [ireum |-> Or(objectData.ireum, Undef),
                 sigan |-> TimeOrUndefined(objectData.sigan),
                 code |-> objectData.code,
                 catefory |-> Or(objectData.catefory, Undef),
                 domein |-> Or(objectData.domein, Undef),
                 jeongbo |-> Or(objectData.jeongbo, Undef),
                 finallink |-> objectData.finallink,
                 position |-> objectData.position,
                 polygon |-> objectData.polygon])
    ELSE coords

\* one iteration of the line loop of extractCoordinatesFromVtt;
\* st = [inCoordinatesSection, isCollectingObject, currentObjectLines,
\* coordinates]
CollectLine(st, line) ==
    IF line.kind = "text" /\ line.text = "COORDINATES_DATA_START"
    THEN [st EXCEPT !.inCoordinatesSection = TRUE]
    ELSE IF line.kind = "text" /\ line.text = "COORDINATES_DATA_END"
    THEN [st EXCEPT
            !.inCoordinatesSection = FALSE,
            !.currentObjectLines = <<>>,
            !.coordinates = IF Len(st.currentObjectLines) > 0
                            THEN ProcessCollectedObject(st.currentObjectLines, st.coordinates)
                            ELSE st.coordinates]
    ELSE IF st.inCoordinatesSection
    THEN IF IsObjectMarker(line)
         THEN [st EXCEPT
                 !.currentObjectLines = <<>>,
                 !.isCollectingObject = TRUE,
                 !.coordinates = IF Len(st.currentObjectLines) > 0
                                 THEN ProcessCollectedObject(st.currentObjectLines, st.coordinates)
                                 ELSE st.coordinates]
         ELSE IF st.isCollectingObject /\ (line.kind = "json" \/ line.text # "")
         THEN [st EXCEPT !.currentObjectLines = Append(st.currentObjectLines, line)]
         ELSE st
    ELSE st

RECURSIVE CollectLoop(_, _)
CollectLoop(st, lines) ==
    IF lines = <<>> THEN st
    ELSE CollectLoop(CollectLine(st, Head(lines)), Tail(lines))

ExtractCoordinatesFromVtt(content) ==
    CollectLoop([inCoordinatesSection |-> FALSE, isCollectingObject |-> FALSE,
                 currentObjectLines |-> <<>>, coordinates |-> <<>>], content).coordinates

\* the ways the body of an object block stops being parsable: its JSON text
\* is cut short, a stray line follows it, or the body is gone
DamageKinds == {"truncated", "trailing", "emptied"}

\* the lines that stand for the JSON lines of a block after the damage
DamagedBody(line, kind) ==
    CASE kind = "truncated" -> <<TextLine("{ \"code\":")>>
      [] kind = "trailing" -> <<line, TextLine("}")>>
      [] OTHER -> <<>>

\* the container with the body of every block whose number is in bs damaged;
\* block is the number of the last object marker seen.  The marker lines
\* and the section markers are left as they were written
RECURSIVE Damage(_, _, _, _)
Damage(content, bs, kind, block) ==
    IF content = <<>> THEN <<>>
    ELSE LET line == Head(content)
         IN  IF IsObjectMarker(line)
             THEN <<line>> \o Damage(Tail(content), bs, kind, block + 1)
             ELSE IF line.kind = "json" /\ block \in bs
             THEN DamagedBody(line, kind) \o Damage(Tail(content), bs, kind, block)
             ELSE <<line>> \o Damage(Tail(content), bs, kind, block)

\* the objects a client sends for a video with up to MaxBlocks annotations
BlockPool ==
    {Full("A", "GTIN"), [Bare("B") EXCEPT !.code = "C2"],
     [Full("C", "GLN") EXCEPT !.videoCurrentTime = 0]}

MalformedInit ==
    /\ MergeIdle
    /\ ServerIdle
    /\ objects \in ListsOf(BlockPool, MaxBlocks)
    /\ coordinateFile = <<>>
    /\ now = 0
    /\ vttContent = <<>>
    /\ extracted = <<>>
    /\ vttContent2 = <<>>
    /\ cpc = "input"

\* the stored container is damaged on disk between a save and the next read
Corrupt ==
    /\ cpc = "encoded"
    /\ \E bs \in SUBSET (1..Len(objects)), kind \in DamageKinds :
          /\ broken' = bs
          /\ corrupted' = Damage(vttContent, bs, kind, 0)
    /\ cpc' = "corrupted"
    /\ UNCHANGED <<objects, coordinateFile, now, vttContent, extracted, vttContent2,
                   coordinates>>
    /\ UNCHANGED <<mergeVars, storeVars, drawingVars, videoVars, stepVars, routeVars>>

\* both readers decode the damaged container
ReadCorrupted ==
    /\ cpc = "corrupted"
    /\ extracted' = ExtractObjectsFromVtt(corrupted)
    /\ coordinates' = ExtractCoordinatesFromVtt(corrupted)
    /\ cpc' = "read"
    /\ UNCHANGED <<objects, coordinateFile, now, vttContent, vttContent2,
                   broken, corrupted>>
    /\ UNCHANGED <<mergeVars, storeVars, drawingVars, videoVars, stepVars, routeVars>>

MalformedNext == Encode \/ Corrupt \/ ReadCorrupted

MalformedSpec == MalformedInit /\ [][MalformedNext]_vars

\* the elements of seq whose index is not in bs, in the order of seq
RECURSIVE Keep(_, _, _)
Keep(seq, bs, i) ==
    IF i > Len(seq) THEN <<>>
    ELSE (IF i \in bs THEN <<>> ELSE <<seq[i]>>) \o Keep(seq, bs, i + 1)

\* C12: decoding a container some of whose object blocks are not parsable
\* returns, in both readers, exactly what the well-formed blocks decode to
\* in the undamaged container, in their original order, whichever blocks
\* (first, middle, last, several, all) were damaged; the decode always
\* returns a list.
C12_MalformedBlockSkip ==
    cpc = "read" =>
        /\ extracted = Keep(ExtractObjectsFromVtt(vttContent), broken, 1)
        /\ coordinates = Keep(ExtractCoordinatesFromVtt(vttContent), broken, 1)
        /\ Len(extracted) = Len(objects) - Cardinality(broken)
        /\ \A k \in 1..Len(extracted) :
              extracted[k].name = Keep(objects, broken, 1)[k].name
        /\ \A k \in 1..Len(coordinates) :
              coordinates[k].ireum = Keep(objects, broken, 1)[k].name

\* the case of C12: of three blocks the middle one was damaged and the
\* first and the last were returned
C12_Witness ==
    /\ cpc = "read"
    /\ Len(objects) = 3
    /\ broken = {2}
    /\ Len(extracted) = 2
    /\ Len(coordinates) = 2
    /\ extracted[1].name = objects[1].name
    /\ extracted[2].name = objects[3].name

-----------------------------------------------------------------------------
(* POST /api/webvtt (handleWebVTTSave, saveWebVTTFile) and                  *)
(* GET /api/vtt-coordinates (handleVttCoordinatesRead) for one video        *)

\* bound on the number of save requests
MaxSaves == 2

\* a save that reads the stored container before it writes, and fails when
\* there is none (mutation of SaveWebVTTFile)
SaveWebVTTFileReadFirst(file, data, objs, coordFile, time, draws) ==
    IF file = NoFile
    THEN [file |-> file, status |-> 500]
    ELSE [file |-> GenerateCompleteVttContent(data, objs, coordFile, time, draws),
          status |-> 200]

\* saveWebVTTFile: the container is generated from the submitted objects
\* alone and written over the file of the folder, whether it exists or not
SaveWebVTTFile(file, data, objs, coordFile, time, draws) ==
    [file |-> GenerateCompleteVttContent(data, objs, coordFile, time, draws),
     status |-> 200]

StoreInit ==
    /\ MergeIdle
    /\ StepIdle
    /\ RouteIdle
    /\ ReaderIdle
    /\ StoreIdle
    /\ DrawingIdle
    /\ VideoIdle
    /\ objects = <<>>
    /\ coordinateFile \in CoordinateFiles
    /\ now = 0
    /\ vttContent = <<>>
    /\ extracted = <<>>
    /\ vttContent2 = <<>>
    /\ cpc = "idle"

\* handleWebVTTSave: 400 when videoId or videoFileName is missing, else the
\* result of saveWebVTTFile
HandleWebVTTSave ==
    /\ saves < MaxSaves
    /\ \E objs \in ListsOf(BlockPool, MaxEncoded), hasIds \in BOOLEAN :
          IF ~hasIds
          THEN /\ saveStatus' = 400
               /\ UNCHANGED <<vttFile, storedBefore, submitted, now>>
          ELSE \E draws \in DrawsFor(objs) :
                  LET r == SaveWebVTTFile(vttFile, Data, objs, coordinateFile, now, draws)
                  IN  /\ vttFile' = r.file
                      /\ saveStatus' = r.status
                      /\ storedBefore' = vttFile
                      /\ submitted' = objs
                      /\ now' = now + 1
    /\ saves' = saves + 1
    /\ readResult' = NoResponse
    /\ UNCHANGED <<objects, coordinateFile, vttContent, extracted, vttContent2, cpc>>
    /\ UNCHANGED <<mergeVars, readerVars, drawingVars, videoVars, stepVars, routeVars>>

\* handleVttCoordinatesRead: 404 when the folder has no container, else the
\* entries extractCoordinatesFromVtt returns
HandleVttCoordinatesRead ==
    /\ readResult' =
          IF vttFile = NoFile
          THEN [status |-> 404, coordinatesCount |-> 0, coordinates |-> <<>>]
          ELSE [status |-> 200,
                coordinatesCount |-> Len(ExtractCoordinatesFromVtt(vttFile)),
                coordinates |-> ExtractCoordinatesFromVtt(vttFile)]
    /\ UNCHANGED <<vttFile, storedBefore, submitted, saveStatus, saves>>
    /\ UNCHANGED <<mergeVars, codecVars, readerVars, drawingVars, videoVars, stepVars, routeVars>>

StoreNext == HandleWebVTTSave \/ HandleVttCoordinatesRead

StoreSpec == StoreInit /\ [][StoreNext]_vars

NamesOf(objs) == {objs[i].name : i \in 1..Len(objs)}

\* the last save was accepted and found a stored container
SavedOverStored == saveStatus = 200 /\ storedBefore # NoFile

\* C13: a save merges with what is stored: after an accepted save over a
\* stored container the new container is encode(merge(decode(stored),
\* submitted)), so every object that was stored and whose name is not in
\* the submission is still in the container.
C13_SaveMergesWithStored ==
    SavedOverStored =>
        LET stored == ExtractObjectsFromVtt(storedBefore)
            merged == CombineObjectsWithTimeDeduplication(stored, submitted).combined
        IN  /\ \E draws \in DrawsFor(merged) :
                  BlocksOf(vttFile) =
                      BlocksOf(GenerateCompleteVttContent(Data, merged, coordinateFile, now, draws))
            /\ NamesOf(stored) \ NamesOf(submitted)
                  \subseteq NamesOf(ExtractObjectsFromVtt(vttFile))

\* C14: a first save is a normal path: an accepted save for a video with no
\* stored container answers 200 and leaves a container with one block per
\* submitted object, in the submitted order, each block being the encoding
\* of its object with the object's own name and time.
C14_FirstSaveNormalPath ==
    (saves > 0 /\ saveStatus # 400 /\ storedBefore = NoFile) =>
        /\ saveStatus = 200
        /\ vttFile # NoFile
        /\ Len(BlocksOf(vttFile)) = Len(submitted)
        /\ vttFile[5] = TextLine("object count: " \o ToString(Len(submitted)))
        /\ \A i \in 1..Len(submitted) :
              LET b == BlocksOf(vttFile)[i]
              IN  /\ b.ireum = submitted[i].name
                  /\ b.sigan = TimeOrZero(submitted[i])
                  /\ \E draw \in [code : 0..MaxRandom, link : 0..MaxRandom] :
                        b = ObjectData(submitted[i], coordinateFile, draw)

\* the case of C14: the first save of two objects was accepted
C14_Witness ==
    /\ saves = 1
    /\ saveStatus = 200
    /\ storedBefore = NoFile
    /\ Len(submitted) = 2
    /\ Len(BlocksOf(vttFile)) = 2

\* an object that carries every field the reader returns, whose position is
\* not replaced by a drawing of the coordinate file
Complete(o) ==
    /\ Truthy(o.name) /\ Truthy(o.code) /\ Truthy(o.category)
    /\ Truthy(o.dlReservoirDomain) /\ Truthy(o.additionalInfo)
    /\ Truthy(o.position) /\ ~Truthy(o.coordinates)
    /\ o.videoCurrentTime # NoTime
    /\ PositionFromFile(coordinateFile, o.name, Null) = Null

\* C19: save then read back: a read after an accepted save of list L
\* answers 200 with |L| entries in the order of L, and the entry of every
\* object that carries all its fields has that object's name, time (also
\* time 0), code, category, domain, info and position.
C19_SaveThenReadBack ==
    (saveStatus = 200 /\ readResult # NoResponse) =>
        /\ readResult.status = 200
        /\ readResult.coordinatesCount = Len(submitted)
        /\ Len(readResult.coordinates) = Len(submitted)
        /\ \A i \in 1..Len(submitted) :
              Complete(submitted[i]) =>
                  LET c == readResult.coordinates[i]
                      o == submitted[i]
                  IN  /\ c.ireum = o.name
                      /\ c.sigan = o.videoCurrentTime
                      /\ c.code = o.code
                      /\ c.catefory = o.category
                      /\ c.domein = o.dlReservoirDomain
                      /\ c.jeongbo = o.additionalInfo
                      /\ c.position = o.position

-----------------------------------------------------------------------------
(* POST /api/drawing (handleDrawingSubmission, saveCoordinatesToFile)       *)

\* bound on the number of submissions in flight for the video
MaxDrawings == 3

\* request bodies: a drawing of the video, a drawing without videoId, and a
\* body without type
DrawingRequests ==
    {[type |-> "path", videoId |-> "video.mp4"],
     [type |-> "path", videoId |-> Undef],
     [type |-> Undef, videoId |-> "video.mp4"]}

\* an event loop that starts a handler while another one is between its
\* read and its write (mutation of EventLoopFree)
EventLoopShared == TRUE

\* the handler and saveCoordinatesToFile use readFileSync and writeFileSync
\* and never yield: the event loop starts a handler only when no other
\* handler is between its read and its write
EventLoopFree == \A q \in DOMAIN drawingPc : drawingPc[q] # "saving"

\* the entry pushed for submission r onto the entries read
NewObjectData(read, r) ==
    [key |-> "object" \o ToString(Len(read) + 1), drawingId |-> "drawing" \o ToString(r)]

DrawingInit ==
    /\ MergeIdle
    /\ StepIdle
    /\ RouteIdle
    /\ CodecIdle
    /\ ReaderIdle
    /\ StoreIdle
    /\ VideoIdle
    /\ drawingData \in [1..MaxDrawings -> DrawingRequests]
    /\ drawingFile = <<>>
    /\ existingData = [r \in 1..MaxDrawings |-> <<>>]
    /\ drawingPc = [r \in 1..MaxDrawings |-> "pending"]

\* handleDrawingSubmission up to the read of the coordinate file: 400
\* without id or type, success without a write when videoId is missing
HandleDrawingSubmission(r) ==
    /\ drawingPc[r] = "pending"
    /\ EventLoopFree
    /\ IF ~Truthy(drawingData[r].type)
       THEN /\ drawingPc' = [drawingPc EXCEPT ![r] = "rejected"]
            /\ UNCHANGED existingData
       ELSE IF ~Truthy(drawingData[r].videoId)
       THEN /\ drawingPc' = [drawingPc EXCEPT ![r] = "done"]
            /\ UNCHANGED existingData
       ELSE /\ drawingPc' = [drawingPc EXCEPT ![r] = "saving"]
            /\ existingData' = [existingData EXCEPT ![r] = drawingFile]
    /\ UNCHANGED <<drawingData, drawingFile>>
    /\ UNCHANGED <<mergeVars, codecVars, readerVars, storeVars, videoVars, stepVars, routeVars>>

\* saveCoordinatesToFile from the push to the write, and the response
SaveCoordinatesToFile(r) ==
    /\ drawingPc[r] = "saving"
    /\ drawingFile' = Append(existingData[r], NewObjectData(existingData[r], r))
    /\ drawingPc' = [drawingPc EXCEPT ![r] = "done"]
    /\ UNCHANGED <<drawingData, existingData>>
    /\ UNCHANGED <<mergeVars, codecVars, readerVars, storeVars, videoVars, stepVars, routeVars>>

DrawingNext ==
    \E r \in 1..MaxDrawings : HandleDrawingSubmission(r) \/ SaveCoordinatesToFile(r)

DrawingSpec == DrawingInit /\ [][DrawingNext]_vars

\* the submissions for the video that were answered with success
AcceptedDrawings ==
    {r \in DOMAIN drawingPc : drawingPc[r] = "done" /\ Truthy(drawingData[r].videoId)}

\* C15: no lost update: at every moment the coordinate file holds exactly
\* one entry per accepted submission for the video, under the keys
\* object1..objectn, whatever the order in which the submissions arrive.
C15_NoLostUpdate ==
    /\ Len(drawingFile) = Cardinality(AcceptedDrawings)
    /\ {drawingFile[i].drawingId : i \in 1..Len(drawingFile)}
          = {"drawing" \o ToString(r) : r \in AcceptedDrawings}
    /\ \A i \in 1..Len(drawingFile) : drawingFile[i].key = "object" \o ToString(i)

\* the case of C15: three submissions for the video were accepted, the
\* third one first
C15_Witness ==
    /\ Cardinality(AcceptedDrawings) = 3
    /\ Len(drawingFile) = 3
    /\ drawingFile[1].drawingId = "drawing3"

-----------------------------------------------------------------------------
(* POST /api/upload-file (storage.destination), POST /api/save-data         *)
(* (handleSaveData, saveEditedData) and DELETE /api/video                   *)
(* (handleVideoDelete) over the folders of the data directory               *)

\* bound on the number of videos the client uploads
MaxVideos == 3

\* bound on the number of accepted save-data requests per video
MaxSaveData == 2

\* the last suffix findActualVideoFolder tries: name, name(1) .. name(20)
FindLastSuffix == 20

\* the last suffix handleVideoDelete tries: name, name(1) .. name(10)
DeleteLastSuffix == 10

Videos == 1..MaxVideos

\* normalized file names of the uploaded videos
FileNames == {"a", "b"}

\* folder [name, n] is data/name when n = 0 and data/name(n) otherwise
Folder(name, n) == [name |-> name, n |-> n]

AllFolders == [name : FileNames, n : 0..FindLastSuffix]

NoFolder == [name |-> Undef, n |-> 0]

\* a destination without the loop over the suffixes (mutation of Destination)
DestinationNoSuffix(name) == Folder(name, 0)

\* storage.destination: the first of name, name(1), name(2), ... that does
\* not exist
Destination(name) ==
    Folder(name, CHOOSE n \in {f.n : f \in DOMAIN folders} :
                    /\ folders[Folder(name, n)] = "absent"
                    /\ \A m \in 0..(n - 1) : folders[Folder(name, m)] # "absent")

\* findActualVideoFolder: the first of name, name(1) .. name(20) that
\* exists and holds the video file, else name
FindActualVideoFolder(name) ==
    LET found == {n \in 0..FindLastSuffix : folders[Folder(name, n)] = "video"}
    IN  IF found = {} THEN Folder(name, 0)
        ELSE Folder(name, CHOOSE n \in found : \A m \in found : n <= m)

\* saveEditedData: version 1 when the folder has no saved-data file, else
\* (existingData.version || 1) + 1
NextVersion(stored) == IF stored = 0 THEN 1 ELSE stored + 1

NoProjectResponse == [video |-> 0, status |-> 0, projectVersion |-> 0, isNewProject |-> FALSE]

NoDeleteResponse == [video |-> 0, status |-> 0, deletedFolder |-> NoFolder, repeated |-> FALSE]

VideoInit ==
    /\ MergeIdle
    /\ StepIdle
    /\ RouteIdle
    /\ CodecIdle
    /\ ReaderIdle
    /\ StoreIdle
    /\ DrawingIdle
    /\ folders = [f \in AllFolders |-> "absent"]
    /\ videoFolder = [v \in Videos |-> NoFolder]
    /\ deletedVideos = {}
    /\ savedData = [f \in AllFolders |-> 0]
    /\ saveCount = [v \in Videos |-> 0]
    /\ projectResponse = NoProjectResponse
    /\ deleteResponse = NoDeleteResponse

\* an upload of a file named name as video v: the folder is created and the
\* file stored in it
HandleFileUpload(v, name) ==
    /\ videoFolder[v] = NoFolder
    /\ folders' = [folders EXCEPT ![Destination(name)] = "video"]
    /\ videoFolder' = [videoFolder EXCEPT ![v] = Destination(name)]
    /\ UNCHANGED <<deletedVideos, savedData, saveCount, projectResponse, deleteResponse>>
    /\ UNCHANGED <<mergeVars, codecVars, readerVars, storeVars, drawingVars, stepVars, routeVars>>

\* handleSaveData for video v that the client uploaded and did not delete:
\* 400 without videoId or videoFileName, else saveEditedData writes the
\* record into the folder findActualVideoFolder finds for the file name
HandleSaveData(v) ==
    /\ videoFolder[v] # NoFolder
    /\ v \notin deletedVideos
    /\ saveCount[v] < MaxSaveData
    /\ \E hasIds \in BOOLEAN :
          IF ~hasIds
          THEN /\ projectResponse' = [video |-> v, status |-> 400,
                                      projectVersion |-> 0, isNewProject |-> FALSE]
               /\ UNCHANGED <<folders, savedData, saveCount>>
          ELSE LET folder == FindActualVideoFolder(videoFolder[v].name)
                   version == NextVersion(savedData[folder])
               IN  /\ folders' = [folders EXCEPT
                                     ![folder] = IF @ = "absent" THEN "bare" ELSE @]
                   /\ savedData' = [savedData EXCEPT ![folder] = version]
                   /\ saveCount' = [saveCount EXCEPT ![v] = @ + 1]
                   /\ projectResponse' = [video |-> v, status |-> 200,
                                          projectVersion |-> version,
                                          isNewProject |-> (version = 1)]
    /\ UNCHANGED <<videoFolder, deletedVideos, deleteResponse>>
    /\ UNCHANGED <<mergeVars, codecVars, readerVars, storeVars, drawingVars, stepVars, routeVars>>

SaveDataNext ==
    \/ \E v \in Videos, name \in FileNames : HandleFileUpload(v, name)
    \/ \E v \in Videos : HandleSaveData(v)

SaveDataSpec == VideoInit /\ [][SaveDataNext]_vars

\* C16: save-data versioning: the first accepted save of a video's edit
\* data is stored with version 1 and reported as a new project; after k
\* accepted saves of the video the reported and the stored version is k.
C16_SaveDataVersioning ==
    projectResponse.status = 200 =>
        LET v == projectResponse.video
        IN  /\ projectResponse.projectVersion = saveCount[v]
            /\ projectResponse.isNewProject = (saveCount[v] = 1)
            /\ savedData[FindActualVideoFolder(videoFolder[v].name)] = saveCount[v]

\* handleVideoDelete: the first of name, name(1) .. name(10) that exists
DeleteCandidate(name) ==
    LET found == {n \in 0..DeleteLastSuffix : folders[Folder(name, n)] # "absent"}
    IN  IF found = {} THEN NoFolder
        ELSE Folder(name, CHOOSE n \in found : \A m \in found : n <= m)

\* handleVideoDelete for a video the client uploaded, with the video's file
\* name: the folder found is removed with everything in it, 404 when none
\* of the candidates exists
HandleVideoDelete(v) ==
    /\ videoFolder[v] # NoFolder
    /\ LET folder == DeleteCandidate(videoFolder[v].name)
       IN  IF folder = NoFolder
           THEN /\ deleteResponse' = [video |-> v, status |-> 404,
                                      deletedFolder |-> NoFolder,
                                      repeated |-> (v \in deletedVideos)]
                /\ UNCHANGED <<folders, savedData, deletedVideos>>
           ELSE /\ folders' = [folders EXCEPT ![folder] = "absent"]
                /\ savedData' = [savedData EXCEPT ![folder] = 0]
                /\ deletedVideos' = deletedVideos \cup {v}
                /\ deleteResponse' = [video |-> v, status |-> 200,
                                      deletedFolder |-> folder,
                                      repeated |-> (v \in deletedVideos)]
    /\ UNCHANGED <<videoFolder, saveCount, projectResponse>>
    /\ UNCHANGED <<mergeVars, codecVars, readerVars, storeVars, drawingVars, stepVars, routeVars>>

DeleteNext ==
    \/ \E v \in Videos, name \in FileNames : HandleFileUpload(v, name)
    \/ \E v \in Videos : HandleSaveData(v)
    \/ \E v \in Videos : HandleVideoDelete(v)

DeleteSpec == VideoInit /\ [][DeleteNext]_vars

\* C17: deleting a video destroys that video's own folder only: a delete
\* that is answered 200 for an uploaded video that was not deleted before
\* has removed the folder assigned to that video at upload, also when the
\* file name was uploaded several times, and the folder of every other
\* uploaded video that was not deleted is still in place.
C17_DeleteRemovesOwnFolderOnly ==
    (deleteResponse.status = 200 /\ ~deleteResponse.repeated) =>
        /\ deleteResponse.deletedFolder = videoFolder[deleteResponse.video]
        /\ \A w \in Videos :
              (videoFolder[w] # NoFolder /\ w \notin deletedVideos) =>
                  folders[videoFolder[w]] = "video"

-----------------------------------------------------------------------------
(* Purity of the merge engine, checked under Spec *)

\* C18: merge is a pure function: after a call the incoming list holds the
\* objects it held before the call, each with the videoCurrentTime it had
\* (the existing list is copied by the spread of line 200 and is not
\* touched).
C18_MergeIsPure ==
    pc = "merged" =>
        /\ Len(newObjectsAfter) = Len(newObjects)
        /\ \A j \in 1..Len(newObjects) :
              newObjectsAfter[j].videoCurrentTime = newObjects[j].videoCurrentTime
        /\ newObjectsAfter = newObjects

-----------------------------------------------------------------------------
(* combineObjectsWithTimeDeduplication executed statement by statement,     *)
(* with the condition and the body of the loop of lines 219-221 as steps    *)

\* a time so large that adding 0.1 to it returns the same double: from
\* 2^50 seconds on the spacing of the doubles is 0.25 or more, and
\* t + 0.1 rounds back to t.  The integers of the model end below that
\* time in hundredths, so Huge is the token for such a time
Huge == 2000000000

\* adjustedTime += 0.1 in double arithmetic
AddStep(t) == IF t >= Huge THEN t ELSE t + TimeStep

\* existing objects as processVttObject returns them, one of them at a
\* huge time
StepExistingPool ==
    {Obj("existing", "A", 0, "old"), Obj("existing", "B", 10, "old"),
     Obj("existing", "A", Huge, "old")}

\* objects of a request body, one of them at a huge time
StepIncomingPool ==
    {Obj("new", "A", 5, "new"), Obj("new", "C", NoTime, "new"),
     Obj("new", "C", 5, "new"), Obj("new", "D", 5, "new"),
     Obj("new", "C", Huge, "new")}

MergeStepInit ==
    /\ CodecIdle
    /\ ReaderIdle
    /\ StoreIdle
    /\ DrawingIdle
    /\ VideoIdle
    /\ StepIdle
    /\ RouteIdle
    /\ existingObjects \in ListsOf(StepExistingPool, MaxObjects)
    /\ newObjects \in ListsOf(StepIncomingPool, MaxObjects)
    /\ combined = <<>>
    /\ newObjectsAfter = <<>>
    /\ appendLog = <<>>
    /\ pc = "input"

\* const combined = [...existingObjects]
CopyExisting ==
    /\ pc = "input"
    /\ combined' = existingObjects
    /\ cursor' = 1
    /\ pc' = "forEach"
    /\ UNCHANGED <<existingObjects, newObjects, newObjectsAfter, appendLog, adjustedTime>>
    /\ UNCHANGED <<codecVars, readerVars, storeVars, drawingVars, videoVars, routeVars>>

\* the body of forEach for newObjects[cursor] up to the probing loop: the
\* update of an object of the same name, the push of an object whose time
\* is free, or the entry into the loop with adjustedTime = currentTime
ForEachBody ==
    /\ pc = "forEach"
    /\ cursor <= Len(newObjects)
    /\ LET newObj == newObjects[cursor]
           existingIndex == FindIndex(combined, newObj.name)
           currentTime == TimeOrZero(newObj)
       IN  IF existingIndex # 0
           THEN /\ combined' = [combined EXCEPT
                                   ![existingIndex] = Spread(combined[existingIndex], newObj)]
                /\ newObjectsAfter' = Append(newObjectsAfter, newObj)
                /\ cursor' = cursor + 1
                /\ UNCHANGED <<adjustedTime, pc>>
           ELSE IF ~TimeConflict(combined, currentTime)
           THEN /\ combined' = Append(combined, newObj)
                /\ newObjectsAfter' = Append(newObjectsAfter, newObj)
                /\ cursor' = cursor + 1
                /\ UNCHANGED <<adjustedTime, pc>>
           ELSE /\ adjustedTime' = currentTime
                /\ pc' = "probing"
                /\ UNCHANGED <<combined, newObjectsAfter, cursor>>
    /\ UNCHANGED <<existingObjects, newObjects, appendLog>>
    /\ UNCHANGED <<codecVars, readerVars, storeVars, drawingVars, videoVars, routeVars>>

\* the condition of while (combined.find(...)) holds: the body is entered
ProbeTest ==
    /\ pc = "probing"
    /\ TimeConflict(combined, adjustedTime)
    /\ pc' = "increment"
    /\ UNCHANGED <<existingObjects, newObjects, combined, newObjectsAfter, appendLog,
                   cursor, adjustedTime>>
    /\ UNCHANGED <<codecVars, readerVars, storeVars, drawingVars, videoVars, routeVars>>

\* the body of the loop: adjustedTime += 0.1, and back to the condition
ProbeStep ==
    /\ pc = "increment"
    /\ adjustedTime' = AddStep(adjustedTime)
    /\ pc' = "probing"
    /\ UNCHANGED <<existingObjects, newObjects, combined, newObjectsAfter, appendLog,
                   cursor>>
    /\ UNCHANGED <<codecVars, readerVars, storeVars, drawingVars, videoVars, routeVars>>

\* the exit of the loop: newObj.videoCurrentTime = adjustedTime and the push
ProbeExit ==
    /\ pc = "probing"
    /\ ~TimeConflict(combined, adjustedTime)
    /\ LET pushed == [newObjects[cursor] EXCEPT !.videoCurrentTime = adjustedTime]
       IN  /\ combined' = Append(combined, pushed)
           /\ newObjectsAfter' = Append(newObjectsAfter, pushed)
    /\ cursor' = cursor + 1
    /\ pc' = "forEach"
    /\ UNCHANGED <<existingObjects, newObjects, appendLog, adjustedTime>>
    /\ UNCHANGED <<codecVars, readerVars, storeVars, drawingVars, videoVars, routeVars>>

\* return combined.sort(...)
SortAndReturn ==
    /\ pc = "forEach"
    /\ cursor > Len(newObjects)
    /\ combined' = SortByTime(combined)
    /\ pc' = "merged"
    /\ UNCHANGED <<existingObjects, newObjects, newObjectsAfter, appendLog,
                   cursor, adjustedTime>>
    /\ UNCHANGED <<codecVars, readerVars, storeVars, drawingVars, videoVars, routeVars>>

MergeStepNext ==
    CopyExisting \/ ForEachBody \/ ProbeTest \/ ProbeStep \/ ProbeExit \/ SortAndReturn

\* the function is synchronous code: the engine executes its next statement
\* as long as there is one
MergeStepSpec == MergeStepInit /\ [][MergeStepNext]_vars /\ WF_vars(MergeStepNext)

\* C20: merge terminates: for every finite existing list and every finite
\* incoming list the probing loop of each appended object stops and merge
\* returns a list.
C20_MergeTerminates == <>(pc = "merged")

-----------------------------------------------------------------------------
(* Invariants of the merge result, checked under Spec *)

\* every two objects of the list lie at least the tolerance apart in time
MarkersApart(list) ==
    \A i, j \in 1..Len(list) :
        i # j => Abs(TimeOrZero(list[i]) - TimeOrZero(list[j])) >= TimeTolerance

\* C21: merge keeps markers apart: if every two objects of the existing
\* list have times at distance >= 0.1, so have every two objects of the
\* merge result, for any incoming list.
C21_MergeKeepsMarkersApart ==
    (pc = "merged" /\ MarkersApart(existingObjects)) => MarkersApart(combined)

\* the names the objects of a list carry
GivenNames(list) == {list[i].name : i \in 1..Len(list)} \ {Undef}

\* no two objects of the list carry the same name
NamesUnique(list) ==
    \A i, j \in 1..Len(list) : i # j => list[i].name # list[j].name

\* C22: names stay unique under merge: if no two existing objects share a
\* name, no two objects of the result share a name, also when the request
\* holds a name more than once, and the result has exactly one object for
\* every name that occurs in the existing list or in the request, and no
\* object of any other name.
C22_NamesStayUnique ==
    (pc = "merged" /\ NamesUnique(existingObjects)) =>
        /\ NamesUnique(combined)
        /\ \A n \in GivenNames(existingObjects) \cup GivenNames(newObjects) :
              Cardinality(IndicesOf(combined, n)) = 1
        /\ GivenNames(combined) = GivenNames(existingObjects) \cup GivenNames(newObjects)

\* the case of C22: the request holds a new name twice and a name of the
\* existing list, and the result has one object of each
C22_Witness ==
    /\ pc = "merged"
    /\ NamesUnique(existingObjects)
    /\ Len(existingObjects) = 2
    /\ Len(newObjects) = 2
    /\ newObjects[1].name = "C"
    /\ newObjects[2].name = "C"
    /\ Len(combined) = 3

-----------------------------------------------------------------------------
(* Folders of uploads, checked under SaveDataSpec *)

\* video v is assigned its folder in this step
Uploaded(v) == videoFolder[v] = NoFolder /\ videoFolder'[v] # NoFolder

\* the folder did not exist before the step and every candidate tried
\* before it (name, name(1) .. name(n - 1)) did
FreshAndSmallest(folder) ==
    /\ folders[folder] = "absent"
    /\ folders'[folder] = "video"
    /\ \A m \in 0..(folder.n - 1) : folders[Folder(folder.name, m)] # "absent"

\* C23: each upload gets a fresh folder: the folder assigned to an uploaded
\* file did not exist before the upload and is the normalized name or
\* name(k) for the smallest k >= 1 such that name(k) does not exist; as
\* long as no folder was deleted, no two uploads have the same folder.
C23_UploadGetsFreshFolder ==
    /\ [][\A v \in Videos : Uploaded(v) => FreshAndSmallest(videoFolder'[v])]_vars
    /\ [](deletedVideos = {} =>
            \A v, w \in Videos :
                (v # w /\ videoFolder[v] # NoFolder /\ videoFolder[w] # NoFolder)
                    => videoFolder[v] # videoFolder[w])

\* the case of C23: one file name uploaded three times, nothing deleted
C23_Witness ==
    /\ deletedVideos = {}
    /\ videoFolder[1] = Folder("a", 0)
    /\ videoFolder[2] = Folder("a", 1)
    /\ videoFolder[3] = Folder("a", 2)

\* C24: data of a re-uploaded file name goes to its own folder: when a file
\* name was uploaded twice (folders name and name(1), each with the video
\* file), the accepted save-data requests of the second upload are all in
\* name(1) and the first upload's folder holds the saves of the first
\* upload only.
C24_SecondUploadOwnFolder ==
    \A v, w \in Videos, name \in FileNames :
        (videoFolder[w] = Folder(name, 0) /\ videoFolder[v] = Folder(name, 1)) =>
            /\ savedData[Folder(name, 1)] = saveCount[v]
            /\ savedData[Folder(name, 0)] = saveCount[w]

-----------------------------------------------------------------------------
(* GET /api/check-filename, checked under CheckSpec *)

\* the last counter handleFilenameCheck tries: do .. while (counter <= 100)
CheckLastSuffix == 100

\* the folders data/name and data/name(1) .. data/name(100)
CheckFolders == [name : FileNames, n : 0..CheckLastSuffix]

NoCheckResponse == [status |-> 0, exists |-> FALSE, name |-> Undef,
                    suggested |-> 0, conflictCount |-> 0]

\* the do-while loop of handleFilenameCheck from counter: it leaves with
\* break at the first counter whose folder does not exist, and with
\* counter 101 and the names of counter 100 when all of them exist
CheckLoop(name, counter) ==
    LET free == {k \in counter..CheckLastSuffix : folders[Folder(name, k)] = "absent"}
    IN  IF free = {}
        THEN [suggested |-> CheckLastSuffix, counter |-> CheckLastSuffix + 1]
        ELSE LET k == CHOOSE k \in free : \A m \in free : k <= m
             IN  [suggested |-> k, counter |-> k]

CheckInit ==
    /\ MergeIdle
    /\ StepIdle
    /\ CodecIdle
    /\ ReaderIdle
    /\ StoreIdle
    /\ DrawingIdle
    /\ folders = [f \in CheckFolders |-> "absent"]
    /\ videoFolder = <<>>
    /\ deletedVideos = {}
    /\ savedData = <<>>
    /\ saveCount = <<>>
    /\ projectResponse = <<>>
    /\ deleteResponse = <<>>
    /\ checkResponse = NoCheckResponse
    /\ ScreenshotIdle
    /\ CoordinateIdle
    /\ ClientIdle

\* an upload of a file named name: storage.destination creates the folder;
\* the response of an earlier check has been delivered
UploadFile(name) ==
    /\ {n \in 0..CheckLastSuffix : folders[Folder(name, n)] = "absent"} # {}
    /\ folders' = [folders EXCEPT ![Destination(name)] = "video"]
    /\ checkResponse' = NoCheckResponse
    /\ UNCHANGED <<videoFolder, deletedVideos, savedData, saveCount,
                   projectResponse, deleteResponse>>
    /\ UNCHANGED <<mergeVars, codecVars, readerVars, storeVars, drawingVars, stepVars>>
    /\ UNCHANGED <<screenshotVars, coordinateVars, clientVars>>

\* handleFilenameCheck: 400 without filename, exists = false with the name
\* itself when its folder does not exist, else the name of the loop
HandleFilenameCheck(name) ==
    /\ checkResponse' =
          IF ~Truthy(name)
          THEN [NoCheckResponse EXCEPT !.status = 400]
          ELSE IF folders[Folder(name, 0)] = "absent"
          THEN [status |-> 200, exists |-> FALSE, name |-> name,
                suggested |-> 0, conflictCount |-> 0]
          ELSE LET loop == CheckLoop(name, 1)
               IN  [status |-> 200, exists |-> TRUE, name |-> name,
                    suggested |-> loop.suggested, conflictCount |-> loop.counter]
    /\ UNCHANGED <<mergeVars, codecVars, readerVars, storeVars, drawingVars,
                   videoVars, stepVars>>
    /\ UNCHANGED <<screenshotVars, coordinateVars, clientVars>>

CheckNext ==
    \/ \E name \in FileNames : UploadFile(name)
    \/ \E name \in FileNames \cup {Undef} : HandleFilenameCheck(name)

CheckSpec == CheckInit /\ [][CheckNext]_vars

\* C25: the file-name check never suggests a taken name: when the answer
\* has exists = true, the folder of the suggested name base(k) does not
\* exist and k is the smallest counter >= 1 whose folder does not exist.
C25_CheckSuggestsFreeName ==
    checkResponse.exists =>
        /\ checkResponse.suggested >= 1
        /\ folders[Folder(checkResponse.name, checkResponse.suggested)] = "absent"
        /\ \A m \in 1..(checkResponse.suggested - 1) :
              folders[Folder(checkResponse.name, m)] # "absent"

-----------------------------------------------------------------------------
(* POST /api/save-screenshot, checked under ScreenshotSpec.  Strings that  *)
(* are searched with includes are sequences of their parts.                *)

\* drawingIds of the requests: d1, d10 and d2
DrawingIds == {<<"d", "1">>, <<"d", "1", "0">>, <<"d", "2">>}

\* s.includes(part)
Includes(s, part) ==
    \E i \in 1..(Len(s) - Len(part) + 1) : SubSeq(s, i, i + Len(part) - 1) = part

\* 5 * 1024 * 1024
MaxSizeBytes == 5 * 1024 * 1024

\* lengths of the base64 text after the data URL prefix: a small image,
\* the longest one accepted and the shortest one rejected
ImageLengths == {4, 6990506, 6990507}

\* (base64Data.length * 3) / 4 > maxSizeBytes
Oversized(length) == length * 3 > MaxSizeBytes * 4

\* MM-SS of videoCurrentTime || 0, the time in hundredths of a second
TimeString(t) ==
    LET currentTime == IF t = NoTime THEN 0 ELSE t
    IN  Pad2(currentTime \div 6000) \o "-" \o Pad2((currentTime % 6000) \div 100)

\* `${videoFolderName}-screenshot-${timeString}-${drawingId}.png`
ImageFileName(t, drawingId) ==
    <<"video", "-", "screenshot", "-", TimeString(t), "-">> \o drawingId \o <<".png">>

\* a body without drawingId, and one without imageData
NoDrawingId == <<>>

NoImage == [prefix |-> FALSE, length |-> 0]

\* request bodies: imageData is absent, or a text with or without the
\* data:image/ prefix
ScreenshotRequests ==
    [videoId : {"video", Undef},
     drawingId : DrawingIds \cup {NoDrawingId},
     imageData : {NoImage} \cup [prefix : BOOLEAN, length : ImageLengths],
     videoCurrentTime : {NoTime, 500}]

NoScreenshotResponse == [status |-> 0, success |-> FALSE]

\* the files the cleanup of saveImageToFile unlinks
ExistingFiles(files, drawingId) ==
    {file \in files : Includes(file, <<"screenshot">>) /\ Includes(file, drawingId)}

ScreenshotInit ==
    /\ MergeIdle
    /\ StepIdle
    /\ CodecIdle
    /\ ReaderIdle
    /\ StoreIdle
    /\ DrawingIdle
    /\ VideoIdle
    /\ CheckIdle
    /\ CoordinateIdle
    /\ ClientIdle
    /\ screenshotFiles = {<<"video", ".mp4">>}
    /\ filesBefore = {<<"video", ".mp4">>}
    /\ screenshotRequest = <<>>
    /\ screenshotResponse = NoScreenshotResponse

\* handleSaveScreenshot with saveImageToFile: 400 for a missing field or a
\* text without the prefix; saveImageToFile throws for an oversized image
\* before it touches the folder, and else unlinks the files of the cleanup
\* and writes the image; writeFileSync can throw (written = FALSE); every
\* exception ends in the handler's catch, which answers 500
HandleSaveScreenshot(req, written) ==
    /\ screenshotRequest' = req
    /\ filesBefore' = screenshotFiles
    /\ IF ~Truthy(req.videoId) \/ req.drawingId = NoDrawingId \/ req.imageData = NoImage
       THEN /\ screenshotResponse' = [status |-> 400, success |-> FALSE]
            /\ UNCHANGED screenshotFiles
       ELSE IF ~req.imageData.prefix
       THEN /\ screenshotResponse' = [status |-> 400, success |-> FALSE]
            /\ UNCHANGED screenshotFiles
       ELSE IF Oversized(req.imageData.length)
       THEN /\ screenshotResponse' = [status |-> 500, success |-> FALSE]
            /\ UNCHANGED screenshotFiles
       ELSE LET kept == screenshotFiles \ ExistingFiles(screenshotFiles, req.drawingId)
            IN  IF written
                THEN /\ screenshotFiles' =
                            kept \cup {ImageFileName(req.videoCurrentTime, req.drawingId)}
                     /\ screenshotResponse' = [status |-> 200, success |-> TRUE]
                ELSE /\ screenshotFiles' = kept
                     /\ screenshotResponse' = [status |-> 500, success |-> FALSE]
    /\ UNCHANGED <<mergeVars, codecVars, readerVars, storeVars, drawingVars,
                   videoVars, stepVars>>
    /\ UNCHANGED <<checkVars, coordinateVars, clientVars>>

ScreenshotNext ==
    \E req \in ScreenshotRequests, written \in BOOLEAN : HandleSaveScreenshot(req, written)

ScreenshotSpec == ScreenshotInit /\ [][ScreenshotNext]_vars

\* the screenshot files stored for a drawing
ScreenshotsOf(files, drawingId) ==
    {file \in files : \E t \in {NoTime, 500} : file = ImageFileName(t, drawingId)}

\* C26: screenshot saving preserves the original on failure: when a
\* save-screenshot request fails at any step (size check or file write),
\* every screenshot file that was stored for its drawingId before the
\* request is still present afterwards.
C26_FailurePreservesOriginal ==
    (screenshotResponse.status >= 400 /\ screenshotRequest.drawingId # NoDrawingId) =>
        ScreenshotsOf(filesBefore, screenshotRequest.drawingId) \subseteq screenshotFiles

\* C27: screenshot saves do not touch other drawings: a request for
\* drawing D never removes the screenshot of a different drawing D', also
\* when the text of D is contained in the text of D'.
C27_OtherDrawingsUntouched ==
    screenshotResponse.status # 0 =>
        \A other \in DrawingIds :
            other # screenshotRequest.drawingId =>
                ScreenshotsOf(filesBefore, other) \subseteq screenshotFiles

\* C28: oversized screenshots are rejected as a client error: a request
\* whose image data is larger than 5 MB is answered with status 400 and
\* success = false, and no file is created or deleted.
C28_OversizedIsClientError ==
    (/\ screenshotResponse.status # 0
     /\ Oversized(screenshotRequest.imageData.length)) =>
        /\ screenshotResponse.status = 400
        /\ ~screenshotResponse.success
        /\ screenshotFiles = filesBefore

-----------------------------------------------------------------------------
(* The coordinate file of one video, checked under CoordinateSpec.  An     *)
(* element of the file is the sequence of the values of one object.        *)

\* bound on the entries pushed onto the coordinate file
MaxEntries == 3

\* MM:SS of videoCurrentTime || 0, the time in hundredths of a second
ColonTimeString(t) ==
    LET currentTime == IF t = NoTime THEN 0 ELSE t
    IN  Pad2(currentTime \div 6000) \o ":" \o Pad2((currentTime % 6000) \div 100)

\* object names of the requests: the names saveCoordinatesToFile gives,
\* a name given by an update, and a missing name
ObjectNames == {ColonTimeString(0), ColonTimeString(500), "A", Undef}

\* Object.values(objectData).some(obj => obj["ireum"] === objectName)
NamedIn(objectData, objectName) ==
    \E i \in 1..Len(objectData) : objectData[i].ireum = objectName

\* a filter that stops at the first element it removes (mutation of
\* FilteredData)
FilteredDataFirst(data, objectName) ==
    LET hits == {i \in 1..Len(data) : NamedIn(data[i], objectName)}
    IN  IF hits = {} THEN data
        ELSE LET first == CHOOSE i \in hits : \A j \in hits : i <= j
             IN  SubSeq(data, 1, first - 1) \o SubSeq(data, first + 1, Len(data))

\* coordinateData.filter(objectData => !Object.values(objectData).some(...))
FilteredData(data, objectName) ==
    LET keep(objectData) == ~NamedIn(objectData, objectName)
    IN  SelectSeq(data, keep)

CoordinateInit ==
    /\ MergeIdle
    /\ StepIdle
    /\ CodecIdle
    /\ ReaderIdle
    /\ StoreIdle
    /\ DrawingIdle
    /\ VideoIdle
    /\ CheckIdle
    /\ ScreenshotIdle
    /\ ClientIdle
    /\ coordinateData = NoFile
    /\ dataBefore = NoFile
    /\ coordinateRequest = Undef
    /\ coordinateResponse = 0

\* saveCoordinatesToFile for a drawing at time t: the entry is pushed
\* under the key object<length + 1> and the name MM:SS
PushCoordinate(t) ==
    /\ Len(coordinateData) < MaxEntries
    /\ coordinateData' = Append(coordinateData,
          <<[key |-> "object" \o ToString(Len(coordinateData) + 1),
             ireum |-> ColonTimeString(t),
             videoCurrentTime |-> IF t = NoTime THEN 0 ELSE t]>>)
    /\ coordinateResponse' = 0
    /\ UNCHANGED <<dataBefore, coordinateRequest>>
    /\ UNCHANGED <<mergeVars, codecVars, readerVars, storeVars, drawingVars,
                   videoVars, stepVars>>
    /\ UNCHANGED <<checkVars, screenshotVars, clientVars>>

\* handleCoordinateUpdate: every value named oldName gets newName
HandleCoordinateUpdate(oldName, newName) ==
    /\ Truthy(oldName)
    /\ Truthy(newName)
    /\ coordinateData # NoFile
    /\ coordinateData' =
          [e \in DOMAIN coordinateData |->
              [i \in DOMAIN coordinateData[e] |->
                  IF coordinateData[e][i].ireum = oldName
                  THEN [coordinateData[e][i] EXCEPT !.ireum = newName]
                  ELSE coordinateData[e][i]]]
    /\ coordinateResponse' = 0
    /\ UNCHANGED <<dataBefore, coordinateRequest>>
    /\ UNCHANGED <<mergeVars, codecVars, readerVars, storeVars, drawingVars,
                   videoVars, stepVars>>
    /\ UNCHANGED <<checkVars, screenshotVars, clientVars>>

\* handleCoordinateDelete: 400 without objectName, 404 without the file,
\* else the filtered entries are written back
HandleCoordinateDelete(objectName) ==
    /\ coordinateRequest' = objectName
    /\ dataBefore' = coordinateData
    /\ IF ~Truthy(objectName)
       THEN /\ coordinateResponse' = 400
            /\ UNCHANGED coordinateData
       ELSE IF coordinateData = NoFile
       THEN /\ coordinateResponse' = 404
            /\ UNCHANGED coordinateData
       ELSE /\ coordinateData' = FilteredData(coordinateData, objectName)
            /\ coordinateResponse' = 200
    /\ UNCHANGED <<mergeVars, codecVars, readerVars, storeVars, drawingVars,
                   videoVars, stepVars>>
    /\ UNCHANGED <<checkVars, screenshotVars, clientVars>>

CoordinateNext ==
    \/ \E t \in {NoTime, 500} : PushCoordinate(t)
    \/ \E oldName \in ObjectNames : HandleCoordinateUpdate(oldName, "A")
    \/ \E objectName \in ObjectNames : HandleCoordinateDelete(objectName)

CoordinateSpec == CoordinateInit /\ [][CoordinateNext]_vars

\* the positions of the entries that are not named name, in ascending order
RECURSIVE Others(_, _, _)
Others(data, name, i) ==
    IF i > Len(data) THEN <<>>
    ELSE IF data[i][1].ireum = name THEN Others(data, name, i + 1)
    ELSE <<i>> \o Others(data, name, i + 1)

\* C29: delete by name is exact: a delete request with objectName N that
\* is answered 200 has removed every entry named N from the coordinate
\* file and left all other entries unchanged and in their order.
C29_DeleteByNameExact ==
    coordinateResponse = 200 =>
        LET others == Others(dataBefore, coordinateRequest, 1)
        IN  /\ Len(coordinateData) = Len(others)
            /\ \A k \in 1..Len(others) : coordinateData[k] = dataBefore[others[k]]
            /\ \A k \in 1..Len(coordinateData) :
                  coordinateData[k][1].ireum # coordinateRequest

\* the case of C29: the first and the third of three entries have the
\* name of the request, and the second entry is what the file holds
C29_Witness ==
    /\ coordinateResponse = 200
    /\ Len(dataBefore) = 3
    /\ dataBefore[1][1].ireum = coordinateRequest
    /\ dataBefore[2][1].ireum # coordinateRequest
    /\ dataBefore[3][1].ireum = coordinateRequest
    /\ coordinateData = <<dataBefore[2]>>

-----------------------------------------------------------------------------
(* The upload item of useVideoUpload, checked under UploadSpec *)

\* progress >= 100 ends the simulated upload
FullProgress == 100

\* Math.random() * 15 + 5, in whole per cent
ProgressSteps == 5..19

\* outcomes of the POST /api/upload-file of uploadVideoFile: the server
\* stores the file and answers 200, answers with an error status, or the
\* request fails on the way
UploadOutcomes == {"ok", "status", "network"}

UploadInit ==
    /\ MergeIdle
    /\ StepIdle
    /\ CodecIdle
    /\ ReaderIdle
    /\ StoreIdle
    /\ DrawingIdle
    /\ VideoIdle
    /\ CheckIdle
    /\ ScreenshotIdle
    /\ CoordinateIdle
    /\ uploadStatus = Undef
    /\ progress = 0
    /\ statusLog = <<>>
    /\ uploadPc = "idle"
    /\ serverAccepted = FALSE

\* setUploads(prev => prev.map(upload => ({...upload, status})))
SetStatus(status) ==
    /\ uploadStatus' = status
    /\ statusLog' = Append(statusLog, status)

\* simulateUpload up to the start of the interval: the item is created
\* with status uploading
SimulateUpload ==
    /\ uploadPc = "idle"
    /\ SetStatus("uploading")
    /\ uploadPc' = "interval"
    /\ UNCHANGED <<progress, serverAccepted>>
    /\ UNCHANGED <<mergeVars, codecVars, readerVars, storeVars, drawingVars,
                   videoVars, stepVars>>
    /\ UNCHANGED <<checkVars, screenshotVars, coordinateVars>>

\* the callback of setInterval: the progress grows by a random step; at
\* 100 the interval is cleared, the item is processing and the timeout is
\* set
UploadInterval(step) ==
    /\ uploadPc = "interval"
    /\ IF progress + step >= FullProgress
       THEN /\ progress' = FullProgress
            /\ SetStatus("processing")
            /\ uploadPc' = "timeout"
       ELSE /\ progress' = progress + step
            /\ UNCHANGED <<uploadStatus, statusLog, uploadPc>>
    /\ UNCHANGED serverAccepted
    /\ UNCHANGED <<mergeVars, codecVars, readerVars, storeVars, drawingVars,
                   videoVars, stepVars>>
    /\ UNCHANGED <<checkVars, screenshotVars, coordinateVars>>

\* the callback of setTimeout: the item is completed, and the extraction
\* of the metadata is started
ProcessTimeout ==
    /\ uploadPc = "timeout"
    /\ SetStatus("completed")
    /\ uploadPc' = "metadata"
    /\ UNCHANGED <<progress, serverAccepted>>
    /\ UNCHANGED <<mergeVars, codecVars, readerVars, storeVars, drawingVars,
                   videoVars, stepVars>>
    /\ UNCHANGED <<checkVars, screenshotVars, coordinateVars>>

\* extractVideoMetadata resolves and uploadVideoFile sends the file
SendFile ==
    /\ uploadPc = "metadata"
    /\ uploadPc' = "fetch"
    /\ UNCHANGED <<uploadStatus, progress, statusLog, serverAccepted>>
    /\ UNCHANGED <<mergeVars, codecVars, readerVars, storeVars, drawingVars,
                   videoVars, stepVars>>
    /\ UNCHANGED <<checkVars, screenshotVars, coordinateVars>>

\* the fetch of uploadVideoFile settles: with response.ok the video is
\* added, else uploadVideoFile throws and the catch of simulateUpload sets
\* the item to error
UploadSettles(outcome) ==
    /\ uploadPc = "fetch"
    /\ uploadPc' = "settled"
    /\ IF outcome = "ok"
       THEN /\ serverAccepted' = TRUE
            /\ UNCHANGED <<uploadStatus, statusLog>>
       ELSE /\ SetStatus("error")
            /\ UNCHANGED serverAccepted
    /\ UNCHANGED progress
    /\ UNCHANGED <<mergeVars, codecVars, readerVars, storeVars, drawingVars,
                   videoVars, stepVars>>
    /\ UNCHANGED <<checkVars, screenshotVars, coordinateVars>>

UploadNext ==
    \/ SimulateUpload
    \/ \E step \in ProgressSteps : UploadInterval(step)
    \/ ProcessTimeout
    \/ SendFile
    \/ \E outcome \in UploadOutcomes : UploadSettles(outcome)

UploadSpec == UploadInit /\ [][UploadNext]_vars

\* C30: the upload status is truthful: the item is shown as completed only
\* after the server has accepted the file, and an item that was completed
\* never has the status error afterwards.
C30_UploadStatusTruthful ==
    /\ uploadStatus = "completed" => serverAccepted
    /\ \A i, j \in 1..Len(statusLog) :
          (i < j /\ statusLog[i] = "completed") => statusLog[j] # "error"

====
